---- MODULE Spec2Model ----
(***************************************************************************)
(* State-machine model of the Pezzy backend: the two-manager multi-sig     *)
(* workflow of managerController.js, the ledger gateway hederaService.js,  *)
(* the interest engine and the investment handlers.                        *)
(*                                                                         *)
(* Every HTTP handler runs in a request-scoped slot (a member of Procs).   *)
(* A handler is cut at its awaits: each action is the synchronous code     *)
(* that runs between two awaits together with the remote read or write     *)
(* that the await resolves.  Mongoose document saves are modelled as the   *)
(* delta they send ($push of appended array elements, $set of assigned     *)
(* paths); the schema does not enable optimisticConcurrency, so a save     *)
(* never fails because another handler wrote the same document.            *)
(*                                                                         *)
(* Time is in hours.  Rates: a percentage is held in hundredths of a       *)
(* percent (8.5% = 850), annualRate as a fraction in millionths            *)
(* (0.085 = 85000), dailyRate as a fixed-point number of 16 decimals.      *)
(* Amounts of money returned by the interest engine are in hundredths.     *)
(***************************************************************************)
EXTENDS Integers, Sequences, FiniteSets, TLC

(* ------------------------------ bounds -------------------------------- *)
\* requests created in the sequential multi-sig scenario, and in the
\* scenarios that add time, overlapping calls or investors
MaxRequests == 2
MaxSharedRequests == 1
\* deposits started, and expiry windows that pass
MaxDeposits == 1
MaxTicks == 2
MaxFundDeposits == 2
MaxLedgerTx == 3

(* ------------------------- program constants -------------------------- *)
ExpiryHours == 24
RequiredSignatures == 2
DefaultRatePercent == 850
PeriodsPerYear == 365
TokenDecimals == 2

Managers == {"m1", "m2", "m3"}
Investors == {"u1"}
Users == Managers \cup Investors
\* an authenticated id whose User document is gone, and the callers of
\* buyTokens
UnknownUsers == {"u0"}
BuyCallers == Investors \cup UnknownUsers
Procs == {1, 2}
SeqProcs == {1}
\* the identities that call in the one-at-a-time scenarios, and in the
\* overlapping one the manager who initiates and those who approve
Callers == {"m1", "m2", "u1"}
RaceInitiators == {"m1"}
RaceApprovers == Managers
NewRates == {-100, 0, 10000, 10100}
ValidRates == {10000}
Amounts == {-5, 0, 100}
\* the percentages handed to the interest engine (-1%, 0%, ..., 101%) and
\* the principals it is asked about
EngineRates == {-100, 0, 100, 500, 850, 1000, 2500, 3650, 5000, 7300,
                10000, 10100}
Principals == {0, 1, 100, 200, 365, 500, 730}
\* the principals, start and end times (hours) and periods (days) of the
\* compound calculations
ValuedPrincipals == {-5, 0, 100, 100000}
Times == {0, 12, 24, 60}
PeriodDays == {0, 1, 90}
\* the fund scenario: the callers of the investor endpoints, the rate the
\* engine is moved to, the amounts bought and the tokenAmount of a
\* redemption request (0: the field is left out)
FundCallers == {"u1", "m1"}
FundRates == {10000}
FundAmounts == {0, 100}
RedeemAmounts == {0}
PartialRedeemAmounts == {0, 50, 10000}
\* whether a write of the deposit handler reaches the database: always, or
\* not always
WritesLand == {TRUE}
WritesMayFail == BOOLEAN
\* the amount handed to the ledger service's token operations, and the id
\* of a token found in the database at startup
LedgerAmounts == {100}
StoredTokenIds == {1}

NoRequest == 0
NoTime == -1
NoTx == 0

VARIABLES now, requests, tokens, hederaTokenId, ledgerTxCount, ledgerLog,
          ledgerCallsFor, ledgerSupply, users, transactions, investments,
          annualRate, dailyRate, call, quota

vars == <<now, requests, tokens, hederaTokenId, ledgerTxCount, ledgerLog,
          ledgerCallsFor, ledgerSupply, users, transactions, investments,
          annualRate, dailyRate, call, quota>>

dbVars == <<requests, tokens, users, transactions, investments>>
ledgerVars == <<hederaTokenId, ledgerTxCount, ledgerLog, ledgerCallsFor,
               ledgerSupply>>
engineVars == <<annualRate, dailyRate>>

(* ------------------------------ helpers -------------------------------- *)
\* Math.pow(10, decimals)
Pow10(n) == IF n = 0 THEN 1 ELSE IF n = 1 THEN 10 ELSE 100

\* interestService constructor: annualRate = parseFloat(rate) / 100
RateFraction(percent) == percent * 100

(* Doubles are held as fixed-point numbers of five limbs in base 10000,   *)
(* least significant first: four limbs of fraction (units of 1e-16) and   *)
(* the integer part in the fifth limb.                                    *)
Base == 10000
One == <<0, 0, 0, 0, 1>>

RECURSIVE MulSmallFrom(_, _, _, _)
MulSmallFrom(X, n, k, c) ==
    IF k = 5 THEN <<X[5] * n + c>>
    ELSE <<(X[k] * n + c) % Base>>
            \o MulSmallFrom(X, n, k + 1, (X[k] * n + c) \div Base)

\* x * n for an integer n
MulSmall(X, n) == MulSmallFrom(X, n, 1, 0)

RECURSIVE DivSmallFrom(_, _, _, _)
DivSmallFrom(X, n, k, r) ==
    IF k = 0 THEN <<>>
    ELSE DivSmallFrom(X, n, k - 1, (r * Base + X[k]) % n)
            \o <<(r * Base + X[k]) \div n>>

\* x / n for an integer n > 0
DivSmall(X, n) == DivSmallFrom(X, n, 5, 0)

RECURSIVE AddFrom(_, _, _, _)
AddFrom(X, Y, k, c) ==
    IF k = 5 THEN <<X[5] + Y[5] + c>>
    ELSE <<(X[k] + Y[k] + c) % Base>>
            \o AddFrom(X, Y, k + 1, (X[k] + Y[k] + c) \div Base)

\* x + y
Add(X, Y) == AddFrom(X, Y, 1, 0)

RECURSIVE ColFrom(_, _, _, _)
ColFrom(X, Y, k, i) ==
    IF i > 4 THEN 0
    ELSE (IF k - i >= 0 /\ k - i <= 4 THEN X[i + 1] * Y[k - i + 1] ELSE 0)
            + ColFrom(X, Y, k, i + 1)

RECURSIVE MulCarry(_, _, _)
MulCarry(X, Y, k) ==
    IF k = 0 THEN 0
    ELSE (ColFrom(X, Y, k - 1, 0) + MulCarry(X, Y, k - 1)) \div Base

\* x * y
Mul(X, Y) ==
    LET c4 == MulCarry(X, Y, 4)
        s4 == ColFrom(X, Y, 4, 0) + c4
        s5 == ColFrom(X, Y, 5, 0) + s4 \div Base
        s6 == ColFrom(X, Y, 6, 0) + s5 \div Base
        s7 == ColFrom(X, Y, 7, 0) + s6 \div Base
        s8 == ColFrom(X, Y, 8, 0) + s7 \div Base
    IN  <<s4 % Base, s5 % Base, s6 % Base, s7 % Base, s8>>

RECURSIVE Pow(_, _)
\* Math.pow(x, n) for an integer n >= 0
Pow(X, n) ==
    IF n = 0 THEN One
    ELSE IF n % 2 = 0 THEN LET h == Pow(X, n \div 2) IN Mul(h, h)
    ELSE Mul(Pow(X, n - 1), X)

\* Math.round(x) for x >= 0
Round(X) == X[5] + (IF X[4] >= Base \div 2 THEN 1 ELSE 0)

\* Math.round(x * 100), the value in hundredths
RoundHundredths(X) == Round(MulSmall(X, 100))

\* the double of an annualRate held in millionths
FractionOf(annual) ==
    <<0, 0, (annual * 100) % Base, ((annual * 100) \div Base) % Base,
      (annual * 100) \div (Base * Base)>>

\* dailyRate = annualRate / compoundingPeriodsPerYear
DailyOf(annual) == DivSmall(FractionOf(annual), PeriodsPerYear)

\* getCurrentRates().annualRate = Math.round(annualRate * 10000) / 100
PercentOf(annual) == (annual + 50) \div 100

\* the slot of one HTTP call: where the handler stands, its arguments and
\* locals, and the response it sends (res.json / res.status(..).json)
\* the result object of a calculation: amounts in hundredths, the
\* effectiveRate in hundredths of a percent, finite FALSE when it is NaN
NoResult == [principal |-> 0, interest |-> 0, totalValue |-> 0, days |-> 0,
             annualRate |-> 0, effectiveRate |-> 0, finite |-> TRUE]

IdleCall == [pc |-> "idle", user |-> "m1", req |-> NoRequest,
             typ |-> "token_creation", rate |-> 0, at |-> 0,
             tok |-> NoTx, amt |-> 0, tx |-> 0, err |-> "none",
             list |-> {}, val |-> 0, until |-> 0, days |-> 0,
             inv |-> 0, redeem |-> 0, holdings |-> {},
             out |-> NoResult, res |-> "none"]

SignerIds(sigs) == {sigs[i].managerId : i \in 1..Len(sigs)}

IsManager_Anyone(u) == TRUE

\* user.role !== 'manager'
IsManager(u) == users[u].role = "manager"

IsPending_NotExecuted(status) == status # "executed"

\* multiSigRequest.status !== 'pending'
IsPending(status) == status = "pending"

IsExpired_Reversed(t, expiresAt) == t < expiresAt

\* new Date() > multiSigRequest.expiresAt
IsExpired(t, expiresAt) == t > expiresAt

AlreadySigned_Never(sigs, u) == FALSE

\* signatures.some(sig => sig.managerId.toString() === userId)
AlreadySigned(sigs, u) == \E i \in 1..Len(sigs) : sigs[i].managerId = u

PushSignature_Forget(sigs, u, t) == sigs

\* multiSigRequest.signatures.push({managerId, managerAccountId, signedAt})
PushSignature(sigs, u, t) == Append(sigs, [managerId |-> u, signedAt |-> t])

NewRequest_ExpiresNow(typ, rate, u, t) ==
    [requestType |-> typ, newRate |-> rate,
     requiredSignatures |-> RequiredSignatures,
     signatures |-> <<[managerId |-> u, signedAt |-> t]>>,
     status |-> "pending", createdBy |-> u, expiresAt |-> t,
     executedAt |-> NoTime, executionTransactionId |-> NoTx,
     metadata |-> "none"]

\* new MultiSigRequest({...}) as built by both initiating endpoints
NewRequest(typ, rate, u, t) ==
    [requestType |-> typ, newRate |-> rate,
     requiredSignatures |-> RequiredSignatures,
     signatures |-> <<[managerId |-> u, signedAt |-> t]>>,
     status |-> "pending", createdBy |-> u, expiresAt |-> t + ExpiryHours,
     executedAt |-> NoTime, executionTransactionId |-> NoTx,
     metadata |-> "none"]

\* the paths multiSigRequestSchema declares
MultiSigRequestPaths ==
    {"requestType", "description", "requestData", "requiredSignatures",
     "signatures", "status", "executedAt", "executionTransactionId",
     "createdBy", "expiresAt"}

\* what save() stores of the assignment doc[path] = value: the schema is
\* strict, a path it does not declare is not written
SavePath(doc, path, value) ==
    IF path \in MultiSigRequestPaths THEN [doc EXCEPT ![path] = value]
                                    ELSE doc

InFlight(pcs) == Cardinality({p \in Procs : call[p].pc \in pcs})

\* the handler sends response r about request rq.  Where replies are
\* observed the slot holds the reply until Respond; otherwise it is free
\* at once
Finish(p, r, rq) ==
    call' = [call EXCEPT ![p] =
               IF quota.replies
                 THEN [IdleCall EXCEPT !.pc = "respond", !.req = rq, !.res = r]
                 ELSE IdleCall]

Goto(p, c) == call' = [call EXCEPT ![p] = c]

(* ------------------------------- Init ---------------------------------- *)
\* a fresh database and the singletons as their constructors leave them;
\* the managers are provisioned with their ledger accounts
Startup ==
    /\ now = 0
    /\ requests = <<>>
    /\ tokens = {}
    /\ hederaTokenId = NoTx
    /\ ledgerTxCount = 0
    /\ ledgerLog = {}
    /\ ledgerCallsFor = <<>>
    /\ ledgerSupply = 0
    /\ users = [u \in Users |->
                  [role |-> IF u \in Managers THEN "manager" ELSE "investor",
                   hederaAccountId |-> u \in Managers,
                   tokenAssociated |-> FALSE]]
    /\ transactions = <<>>
    /\ investments = <<>>
    /\ annualRate = RateFraction(DefaultRatePercent)
    /\ dailyRate = DailyOf(RateFraction(DefaultRatePercent))
    /\ call = [p \in Procs |-> IdleCall]

\* what a scenario admits: requests created, deposits started, and whether
\* the replies are observed
Init ==
    Startup /\ quota = [requests |-> MaxRequests, deposits |-> 0,
                        replies |-> TRUE]

InitTimed ==
    Startup /\ quota = [requests |-> MaxSharedRequests, deposits |-> 0,
                        replies |-> TRUE]

InitRace ==
    Startup /\ quota = [requests |-> MaxSharedRequests, deposits |-> 0,
                        replies |-> FALSE]

InitEngine ==
    Startup /\ quota = [requests |-> 0, deposits |-> 0, replies |-> TRUE]

InitInvest ==
    Startup /\ quota = [requests |-> MaxSharedRequests,
                        deposits |-> MaxDeposits, replies |-> TRUE]

(* ------------------------------ clock ---------------------------------- *)
\* time passes in steps of one expiry window, so that a request is met
\* before, exactly at and after its expiresAt
Tick ==
    /\ now + ExpiryHours <= MaxTicks * ExpiryHours
    /\ now' = now + ExpiryHours
    /\ UNCHANGED <<dbVars, ledgerVars, engineVars, call, quota>>

\* a day passes while no call is being served
DayPasses ==
    /\ \A p \in Procs : call[p].pc = "idle"
    /\ now + ExpiryHours <= MaxTicks * ExpiryHours
    /\ now' = now + ExpiryHours
    /\ UNCHANGED <<dbVars, ledgerVars, engineVars, call, quota>>

\* the response leaves the server and the slot is free again
Respond(p) ==
    /\ call[p].pc = "respond"
    /\ call' = [call EXCEPT ![p] = IdleCall]
    /\ UNCHANGED <<now, dbVars, ledgerVars, engineVars, quota>>

(* ---------------- initiateTokenCreation (lines 19-91) ------------------ *)
InitiateTokenCreation_NoTokenCheck(p, u) ==
    /\ call[p].pc = "idle"
    /\ IF ~IsManager(u)
         THEN Finish(p, "NotAuthorized", NoRequest)
         ELSE /\ Len(requests) + InFlight({"init_save"}) < quota.requests
              /\ Goto(p, [IdleCall EXCEPT !.pc = "init_save", !.user = u,
                                          !.typ = "token_creation",
                                          !.at = now])
    /\ UNCHANGED <<now, dbVars, ledgerVars, engineVars, quota>>

InitiateTokenCreation(p, u) ==
    /\ call[p].pc = "idle"
    /\ IF ~IsManager(u)
         THEN Finish(p, "NotAuthorized", NoRequest)
         ELSE IF tokens # {}
           THEN Finish(p, "TokenExists", NoRequest)
           ELSE /\ Len(requests) + InFlight({"init_save"}) < quota.requests
                /\ Goto(p, [IdleCall EXCEPT !.pc = "init_save", !.user = u,
                                            !.typ = "token_creation",
                                            !.at = now])
    /\ UNCHANGED <<now, dbVars, ledgerVars, engineVars, quota>>

(* ----------------- updateInterestRate (lines 384-450) ------------------ *)
\* !newRate || newRate < 0 || newRate > 100
InvalidRate(newRate) == newRate = 0 \/ newRate < 0 \/ newRate > 10000

UpdateInterestRate(p, u, newRate) ==
    /\ call[p].pc = "idle"
    /\ IF ~IsManager(u)
         THEN Finish(p, "NotAuthorized", NoRequest)
         ELSE IF InvalidRate(newRate)
           THEN Finish(p, "InvalidRate", NoRequest)
           ELSE /\ Len(requests) + InFlight({"init_save"}) < quota.requests
                /\ Goto(p, [IdleCall EXCEPT !.pc = "init_save", !.user = u,
                                            !.typ = "rate_change",
                                            !.rate = newRate, !.at = now])
    /\ UNCHANGED <<now, dbVars, ledgerVars, engineVars, quota>>

InitiateSave_ApplyRate(p) ==
    /\ call[p].pc = "init_save"
    /\ requests' = Append(requests, NewRequest(call[p].typ, call[p].rate,
                                               call[p].user, call[p].at))
    /\ ledgerCallsFor' = Append(ledgerCallsFor, 0)
    /\ annualRate' = IF call[p].typ = "rate_change"
                       THEN RateFraction(call[p].rate) ELSE annualRate
    /\ dailyRate' = DailyOf(annualRate')
    /\ Finish(p, "Initiated", Len(requests) + 1)
    /\ UNCHANGED <<now, tokens, users, transactions, investments,
                   hederaTokenId, ledgerTxCount, ledgerLog, ledgerSupply,
                   quota>>

\* await multiSigRequest.save() of either initiating endpoint
InitiateSave(p) ==
    /\ call[p].pc = "init_save"
    /\ requests' = Append(requests, NewRequest(call[p].typ, call[p].rate,
                                               call[p].user, call[p].at))
    /\ ledgerCallsFor' = Append(ledgerCallsFor, 0)
    /\ Finish(p, "Initiated", Len(requests) + 1)
    /\ UNCHANGED <<now, tokens, users, transactions, investments,
                   hederaTokenId, ledgerTxCount, ledgerLog, ledgerSupply,
                   engineVars, quota>>

(* ---------------- approveTokenCreation (lines 97-222) ------------------ *)
\* lines 102-155: role check, findById, status, expiry and duplicate checks
ApproveRead(p, u, r) ==
    /\ call[p].pc = "idle"
    /\ IF ~IsManager(u)
         THEN Finish(p, "NotAuthorized", NoRequest)
         ELSE IF r \notin 1..Len(requests)
           THEN Finish(p, "NotFound", NoRequest)
           ELSE IF ~IsPending(requests[r].status)
             THEN Finish(p, "InvalidState", r)
             ELSE IF IsExpired(now, requests[r].expiresAt)
               THEN Goto(p, [IdleCall EXCEPT !.pc = "ap_expire_save",
                                             !.user = u, !.req = r])
               ELSE IF AlreadySigned(requests[r].signatures, u)
                 THEN Finish(p, "DuplicateSignature", r)
                 ELSE Goto(p, [IdleCall EXCEPT !.pc = "ap_sig_save",
                                               !.user = u, !.req = r,
                                               !.at = now])
    /\ UNCHANGED <<now, dbVars, ledgerVars, engineVars, quota>>

\* lines 130-135: status = 'rejected'; save(); 400 'Request has expired'
ApproveExpireSave(p) ==
    /\ call[p].pc = "ap_expire_save"
    /\ requests' = [requests EXCEPT ![call[p].req].status = "rejected"]
    /\ Finish(p, "Expired", call[p].req)
    /\ UNCHANGED <<now, tokens, users, transactions, investments,
                   ledgerVars, engineVars, quota>>

\* lines 150-158: push the signature, status = 'approved', save()
ApproveSigSave(p) ==
    /\ call[p].pc = "ap_sig_save"
    /\ requests' = [requests EXCEPT
          ![call[p].req].signatures =
              PushSignature(@, call[p].user, call[p].at),
          ![call[p].req].status = "approved"]
    /\ Goto(p, [IdleCall EXCEPT !.pc = "ap_ledger", !.req = call[p].req])
    /\ UNCHANGED <<now, tokens, users, transactions, investments,
                   ledgerVars, engineVars, quota>>

\* what the ledger gateway is handed with one submitted operation: the
\* operation, the request it was submitted for and that request's signers
LedgerEntry(op, r) ==
    [op |-> op, req |-> r,
     requestType |-> IF r = NoRequest THEN "none" ELSE requests[r].requestType,
     signers |-> IF r = NoRequest THEN 0
                 ELSE Cardinality(SignerIds(requests[r].signatures))]

\* lines 163-166: hederaService.createTokenWithMultiSig(requestData),
\* called whatever the requestType of the request is
ApproveLedger(p) ==
    /\ call[p].pc = "ap_ledger"
    /\ ledgerLog' = ledgerLog \cup {LedgerEntry("create", call[p].req)}
    /\ ledgerCallsFor' = [ledgerCallsFor EXCEPT ![call[p].req] = @ + 1]
    /\ \E ok \in BOOLEAN :
         IF ok
           THEN /\ ledgerTxCount' = ledgerTxCount + 1
                /\ hederaTokenId' = ledgerTxCount + 1
                /\ Goto(p, [call[p] EXCEPT !.pc = "ap_token_save",
                                           !.tok = ledgerTxCount + 1])
           ELSE /\ UNCHANGED <<ledgerTxCount, hederaTokenId>>
                /\ Goto(p, [call[p] EXCEPT !.pc = "ap_reject_save",
                                           !.err = "ledger_error"])
    /\ UNCHANGED <<now, dbVars, ledgerSupply, engineVars, quota>>

\* lines 168-182: new Token({...}); token.save()
ApproveTokenSave(p) ==
    /\ call[p].pc = "ap_token_save"
    /\ \E ok \in BOOLEAN :
         IF ok
           THEN /\ tokens' = tokens \cup
                      {[tokenId |-> call[p].tok,
                        creationTransactionId |-> call[p].tok]}
                /\ Goto(p, [call[p] EXCEPT !.pc = "ap_exec_save"])
           ELSE /\ UNCHANGED tokens
                /\ Goto(p, [call[p] EXCEPT !.pc = "ap_reject_save",
                                           !.tok = NoTx,
                                           !.err = "save_error"])
    /\ UNCHANGED <<now, requests, users, transactions, investments,
                   ledgerVars, engineVars, quota>>

\* lines 184-205: status = 'executed', executedAt, executionTransactionId,
\* save(); hederaService.setTokenId(tokenResult.tokenId)
ApproveExecSave(p) ==
    /\ call[p].pc = "ap_exec_save"
    /\ \E ok \in BOOLEAN :
         IF ok
           THEN /\ requests' = [requests EXCEPT
                      ![call[p].req].status = "executed",
                      ![call[p].req].executedAt = now,
                      ![call[p].req].executionTransactionId = call[p].tok]
                /\ hederaTokenId' = call[p].tok
                /\ Finish(p, "Executed", call[p].req)
           ELSE /\ UNCHANGED <<requests, hederaTokenId>>
                /\ Goto(p, [call[p] EXCEPT !.pc = "ap_reject_save",
                                           !.tok = NoTx,
                                           !.err = "save_error"])
    /\ UNCHANGED <<now, tokens, users, transactions, investments,
                   ledgerTxCount, ledgerLog, ledgerCallsFor, ledgerSupply,
                   engineVars, quota>>

\* lines 207-221: status = 'rejected'; metadata = {error}; save();
\* throw -> 500
ApproveRejectSave(p) ==
    /\ call[p].pc = "ap_reject_save"
    /\ \E ok \in BOOLEAN :
         IF ok
           THEN requests' = [requests EXCEPT ![call[p].req] =
                    SavePath(SavePath(@, "status", "rejected"),
                             "metadata", call[p].err)]
           ELSE UNCHANGED requests
    /\ Finish(p, "ExecutionFailed", call[p].req)
    /\ UNCHANGED <<now, tokens, users, transactions, investments,
                   ledgerVars, engineVars, quota>>

(* ----------------- getPendingRequests (lines 228-263) ------------------ *)
PendingQuery_IgnoreSigner(u, t) ==
    {r \in DOMAIN requests :
        /\ requests[r].status = "pending"
        /\ requests[r].expiresAt > t}

\* MultiSigRequest.find({status: 'pending', expiresAt: {$gt: new Date()},
\* 'signatures.managerId': {$ne: userId}}): $ne on an array path selects
\* the documents none of whose elements has the value
PendingQuery(u, t) ==
    {r \in DOMAIN requests :
        /\ requests[r].status = "pending"
        /\ requests[r].expiresAt > t
        /\ ~\E i \in 1..Len(requests[r].signatures) :
               requests[r].signatures[i].managerId = u}

GetPendingRequests(p, u) ==
    /\ call[p].pc = "idle"
    /\ IF ~IsManager(u)
         THEN Finish(p, "NotAuthorized", NoRequest)
         ELSE call' = [call EXCEPT ![p] =
                 IF quota.replies
                   THEN [IdleCall EXCEPT !.pc = "respond", !.user = u,
                                         !.res = "PendingList",
                                         !.list = PendingQuery(u, now)]
                   ELSE IdleCall]
    /\ UNCHANGED <<now, dbVars, ledgerVars, engineVars, quota>>

(* ------------- createHederaAccount (authController 346-418) ------------ *)
CreateHederaAccount(p, u) ==
    /\ call[p].pc = "idle"
    /\ IF users[u].hederaAccountId
         THEN Finish(p, "AlreadyHasAccount", NoRequest)
         ELSE Goto(p, [IdleCall EXCEPT !.pc = "acct_ledger", !.user = u])
    /\ UNCHANGED <<now, dbVars, ledgerVars, engineVars, quota>>

\* new AccountCreateTransaction()...execute(client); getReceipt(client)
CreateAccountLedger(p) ==
    /\ call[p].pc = "acct_ledger"
    /\ \E ok \in BOOLEAN :
         IF ok THEN Goto(p, [call[p] EXCEPT !.pc = "acct_save"])
               ELSE Finish(p, "AccountFailed", NoRequest)
    /\ UNCHANGED <<now, dbVars, ledgerVars, engineVars, quota>>

\* user.hederaAccountId = newAccountId.toString(); user.save()
CreateAccountSave(p) ==
    /\ call[p].pc = "acct_save"
    /\ users' = [users EXCEPT ![call[p].user].hederaAccountId = TRUE]
    /\ Finish(p, "AccountCreated", NoRequest)
    /\ UNCHANGED <<now, requests, tokens, transactions, investments,
                   ledgerVars, engineVars, quota>>

(* ------------------- associateToken (lines 755-804) -------------------- *)
AssociateToken_NoAccountCheck(p, u) ==
    /\ call[p].pc = "idle"
    /\ IF users[u].tokenAssociated
         THEN Finish(p, "AlreadyAssociated", NoRequest)
         ELSE Goto(p, [IdleCall EXCEPT !.pc = "assoc_save", !.user = u])
    /\ UNCHANGED <<now, dbVars, ledgerVars, engineVars, quota>>

AssociateToken(p, u) ==
    /\ call[p].pc = "idle"
    /\ IF ~users[u].hederaAccountId
         THEN Finish(p, "NoAccount", NoRequest)
         ELSE IF users[u].tokenAssociated
           THEN Finish(p, "AlreadyAssociated", NoRequest)
           ELSE Goto(p, [IdleCall EXCEPT !.pc = "assoc_save", !.user = u])
    /\ UNCHANGED <<now, dbVars, ledgerVars, engineVars, quota>>

\* user.tokenAssociated = true; user.save()
AssociateSave(p) ==
    /\ call[p].pc = "assoc_save"
    /\ users' = [users EXCEPT ![call[p].user].tokenAssociated = TRUE]
    /\ Finish(p, "Associated", NoRequest)
    /\ UNCHANGED <<now, requests, tokens, transactions, investments,
                   ledgerVars, engineVars, quota>>

(* --------------------- buyTokens (lines 471-606) ----------------------- *)
\* Math.floor(amountRWF * Math.pow(10, decimals))
TokenAmount(amountRWF) == amountRWF * Pow10(TokenDecimals)

\* the stored transactions of one type
TransactionsOf(type) ==
    {i \in DOMAIN transactions : transactions[i].type = type}

BuyTokens_NoAssociationCheck(p, u, amountRWF) ==
    /\ call[p].pc = "idle"
    /\ IF amountRWF = 0 \/ amountRWF <= 0
         THEN Finish(p, "InvalidAmount", NoRequest)
         ELSE IF u \notin DOMAIN users
           THEN Finish(p, "UserNotFound", NoRequest)
           ELSE IF ~users[u].hederaAccountId
             THEN Finish(p, "NoAccount", NoRequest)
             ELSE /\ Cardinality(TransactionsOf("deposit"))
                       + InFlight({"buy_tx_save"}) < quota.deposits
                  /\ Goto(p, [IdleCall EXCEPT !.pc = "buy_tx_save",
                                              !.user = u, !.amt = amountRWF])
    /\ UNCHANGED <<now, dbVars, ledgerVars, engineVars, quota>>

\* lines 476-515: input and user checks
BuyTokens(p, u, amountRWF) ==
    /\ call[p].pc = "idle"
    /\ IF amountRWF = 0 \/ amountRWF <= 0
         THEN Finish(p, "InvalidAmount", NoRequest)
         ELSE IF u \notin DOMAIN users
           THEN Finish(p, "UserNotFound", NoRequest)
           ELSE IF ~users[u].hederaAccountId
             THEN Finish(p, "NoAccount", NoRequest)
             ELSE IF ~users[u].tokenAssociated
               THEN Finish(p, "NotAssociated", NoRequest)
               ELSE /\ Cardinality(TransactionsOf("deposit"))
                         + InFlight({"buy_tx_save"}) < quota.deposits
                    /\ Goto(p, [IdleCall EXCEPT
                          !.pc = "buy_tx_save", !.user = u,
                          !.amt = amountRWF])
    /\ UNCHANGED <<now, dbVars, ledgerVars, engineVars, quota>>

\* lines 517-528: new Transaction({... status: 'pending'}); save().  ok
\* tells whether the write lands; when it does not the handler's outer
\* catch answers 500 and nothing is stored
BuyTxSave(p, ok) ==
    /\ call[p].pc = "buy_tx_save"
    /\ IF ok
         THEN /\ transactions' = Append(transactions,
                   [userId |-> call[p].user, type |-> "deposit",
                    amountRWF |-> call[p].amt,
                    tokenAmount |-> TokenAmount(call[p].amt),
                    status |-> "pending", investmentId |-> 0,
                    hederaTransactionId |-> "none", metadata |-> "none"])
              /\ Goto(p, [call[p] EXCEPT !.pc = "buy_mint",
                                         !.tx = Len(transactions) + 1])
         ELSE /\ UNCHANGED transactions
              /\ Finish(p, "InvestmentFailed", NoRequest)
    /\ UNCHANGED <<now, requests, tokens, users, investments,
                   ledgerVars, engineVars, quota>>

BuyMint_Proceed(p) ==
    /\ call[p].pc = "buy_mint"
    /\ IF hederaTokenId = NoTx
         THEN /\ UNCHANGED <<ledgerLog, ledgerTxCount, ledgerSupply>>
              /\ Goto(p, [call[p] EXCEPT !.pc = "buy_inv_save"])
         ELSE /\ ledgerLog' = ledgerLog \cup {LedgerEntry("mint", NoRequest)}
              /\ \E ok \in BOOLEAN :
                   IF ok
                     THEN /\ ledgerTxCount' = ledgerTxCount + 1
                          /\ ledgerSupply' = ledgerSupply
                                              + TokenAmount(call[p].amt)
                          /\ Goto(p, [call[p] EXCEPT !.pc = "buy_inv_save"])
                     ELSE /\ UNCHANGED <<ledgerTxCount, ledgerSupply>>
                          /\ Goto(p, [call[p] EXCEPT !.pc = "buy_inv_save"])
    /\ UNCHANGED <<now, dbVars, hederaTokenId, ledgerCallsFor, engineVars,
                   quota>>

\* line 532 and hederaService.mintTokens (181-215): no multi-sig request is
\* looked up; the service signs with both configured manager keys itself
BuyMint(p) ==
    /\ call[p].pc = "buy_mint"
    /\ IF hederaTokenId = NoTx
         THEN /\ UNCHANGED <<ledgerLog, ledgerTxCount, ledgerSupply>>
              /\ Goto(p, [call[p] EXCEPT !.pc = "buy_fail_save"])
         ELSE /\ ledgerLog' = ledgerLog \cup {LedgerEntry("mint", NoRequest)}
              /\ \E ok \in BOOLEAN :
                   IF ok
                     THEN /\ ledgerTxCount' = ledgerTxCount + 1
                          /\ ledgerSupply' = ledgerSupply
                                              + TokenAmount(call[p].amt)
                          /\ Goto(p, [call[p] EXCEPT !.pc = "buy_inv_save"])
                     ELSE /\ UNCHANGED <<ledgerTxCount, ledgerSupply>>
                          /\ Goto(p, [call[p] EXCEPT !.pc = "buy_fail_save"])
    /\ UNCHANGED <<now, dbVars, hederaTokenId, ledgerCallsFor, engineVars,
                   quota>>

\* lines 552-565: new Investment({...}); save(); a write that does not
\* land throws into the catch of line 589
BuyInvestmentSave(p, ok) ==
    /\ call[p].pc = "buy_inv_save"
    /\ IF ok
         THEN /\ investments' = Append(investments,
                   [userId |-> call[p].user, amountRWF |-> call[p].amt,
                    tokenAmount |-> TokenAmount(call[p].amt),
                    investmentDate |-> now,
                    interestRate |-> PercentOf(annualRate),
                    status |-> "active",
                    hederaTransactionId |-> "mock-transfer",
                    redemptionDate |-> NoTime, redemptionAmount |-> 0,
                    redemptionTransactionId |-> "none",
                    interestAccrued |-> 0])
              /\ Goto(p, [call[p] EXCEPT !.pc = "buy_done_save",
                                         !.inv = Len(investments) + 1])
         ELSE /\ UNCHANGED investments
              /\ Goto(p, [call[p] EXCEPT !.pc = "buy_fail_save"])
    /\ UNCHANGED <<now, requests, tokens, users, transactions,
                   ledgerVars, engineVars, quota>>

\* lines 567-587: transaction completed; save(); success response.  When
\* the write does not land the document keeps the assignments of lines
\* 568-571 in memory and the catch of line 589 takes over
BuyCompleteSave(p, ok) ==
    /\ call[p].pc = "buy_done_save"
    /\ IF ok
         THEN /\ transactions' = [transactions EXCEPT
                   ![call[p].tx].investmentId = call[p].inv,
                   ![call[p].tx].hederaTransactionId = "mock-transfer",
                   ![call[p].tx].status = "completed"]
              /\ Finish(p, "Invested", NoRequest)
         ELSE /\ UNCHANGED transactions
              /\ Goto(p, [call[p] EXCEPT !.pc = "buy_fail_save"])
    /\ UNCHANGED <<now, requests, tokens, users, investments,
                   ledgerVars, engineVars, quota>>

\* lines 589-605: transaction failed with the error in metadata, saved
\* with whatever else was assigned to it and not yet written; 500 whether
\* or not this write lands
BuyFailSave(p, ok) ==
    /\ call[p].pc = "buy_fail_save"
    /\ transactions' =
          IF ok
            THEN [transactions EXCEPT
                    ![call[p].tx].status = "failed",
                    ![call[p].tx].metadata = "error",
                    ![call[p].tx].investmentId = call[p].inv,
                    ![call[p].tx].hederaTransactionId =
                        IF call[p].inv = 0 THEN @ ELSE "mock-transfer"]
            ELSE transactions
    /\ Finish(p, "InvestmentFailed", NoRequest)
    /\ UNCHANGED <<now, requests, tokens, users, investments,
                   ledgerVars, engineVars, quota>>

(* ------------------- InterestService (part_000) ------------------------ *)
RateOutOfRange_UpperOnly(rate) == rate > 10000

\* rate < 0 || rate > 100
RateOutOfRange(rate) == rate < 0 \/ rate > 10000

\* Math.round(principalAmount * this.dailyRate * 100), in hundredths
DailyInterest(principal, daily) ==
    RoundHundredths(MulSmall(daily, principal))

ServiceUpdateInterestRate_StaleDaily(p, newRate) ==
    /\ call[p].pc = "idle"
    /\ IF RateOutOfRange(newRate)
         THEN /\ UNCHANGED engineVars
              /\ Goto(p, [IdleCall EXCEPT !.pc = "respond",
                                          !.rate = newRate,
                                          !.res = "InvalidRate"])
         ELSE /\ annualRate' = RateFraction(newRate)
              /\ UNCHANGED dailyRate
              /\ Goto(p, [IdleCall EXCEPT !.pc = "respond",
                                          !.rate = newRate,
                                          !.res = "RateUpdated"])
    /\ UNCHANGED <<now, dbVars, ledgerVars, quota>>

\* updateInterestRate(newRate), lines 214-232: synchronous, throws before
\* any assignment when the rate is out of range
ServiceUpdateInterestRate(p, newRate) ==
    /\ call[p].pc = "idle"
    /\ IF RateOutOfRange(newRate)
         THEN /\ UNCHANGED engineVars
              /\ Goto(p, [IdleCall EXCEPT !.pc = "respond",
                                          !.rate = newRate,
                                          !.res = "InvalidRate"])
         ELSE /\ annualRate' = RateFraction(newRate)
              /\ dailyRate' = DailyOf(annualRate')
              /\ Goto(p, [IdleCall EXCEPT !.pc = "respond",
                                          !.rate = newRate,
                                          !.res = "RateUpdated"])
    /\ UNCHANGED <<now, dbVars, ledgerVars, quota>>

\* calculateDailyInterest(principal), lines 155-167: the dailyInterest of
\* the result, in hundredths
CalculateDailyInterest(p, principal) ==
    /\ call[p].pc = "idle"
    /\ Goto(p, [IdleCall EXCEPT !.pc = "respond", !.amt = principal,
                                !.val = DailyInterest(principal, dailyRate),
                                !.res = "DailyInterest"])
    /\ UNCHANGED <<now, dbVars, ledgerVars, engineVars, quota>>

CompoundFactor_Simple(daily, days) == Add(One, MulSmall(daily, days))

\* Math.pow((1 + this.dailyRate), days)
CompoundFactor(daily, days) == Pow(Add(One, daily), days)

DaysElapsed_Truncate(start, end) ==
    IF end >= start THEN (end - start) \div 24
                    ELSE 0 - ((start - end) \div 24)

DaysElapsed_Nearest(start, end) == (end - start + 12) \div 24

\* Math.floor((end - start) / millisecondsPerDay)
DaysElapsed(start, end) == (end - start) \div 24

\* x - n for an integer n
SubInt(X, n) == [X EXCEPT ![5] = @ - n]

\* Math.round(((totalValue / principalAmount - 1) / timeInYears) * 10000)
\* with timeInYears = daysElapsed / 365, for daysElapsed > 0
EffectiveRate(factor, days) ==
    Round(MulSmall(DivSmall(MulSmall(SubInt(factor, 1), PeriodsPerYear),
                            days), 10000))

\* lines 59-83: the result object for principal > 0 and daysElapsed >= 0;
\* with daysElapsed = 0 the effectiveRate is 0 / 0
InterestResult(principal, days, annual, daily) ==
    [principal |-> principal * 100,
     annualRate |-> PercentOf(annual),
     interest |-> RoundHundredths(SubInt(
                     MulSmall(CompoundFactor(daily, days), principal),
                     principal)),
     totalValue |-> RoundHundredths(
                     MulSmall(CompoundFactor(daily, days), principal)),
     days |-> days,
     effectiveRate |-> IF days = 0 THEN 0
                       ELSE EffectiveRate(CompoundFactor(daily, days), days),
     finite |-> days # 0]

CalculateInterest_DatesFirst(p, principal, start, end) ==
    /\ call[p].pc = "idle"
    /\ Goto(p, [IdleCall EXCEPT
          !.pc = "respond", !.amt = principal, !.at = start, !.until = end,
          !.res = IF DaysElapsed(start, end) < 0 THEN "InvalidRange"
                  ELSE "Interest",
          !.out = IF principal <= 0
                    THEN [NoResult EXCEPT
                             !.annualRate = PercentOf(annualRate)]
                    ELSE IF DaysElapsed(start, end) < 0 THEN NoResult
                    ELSE InterestResult(principal, DaysElapsed(start, end),
                                        annualRate, dailyRate)])
    /\ UNCHANGED <<now, dbVars, ledgerVars, engineVars, quota>>

\* calculateInterest(principal, startDate, endDate), lines 34-89
CalculateInterest(p, principal, start, end) ==
    /\ call[p].pc = "idle"
    /\ Goto(p, [IdleCall EXCEPT
          !.pc = "respond", !.amt = principal, !.at = start, !.until = end,
          !.res = IF principal > 0 /\ DaysElapsed(start, end) < 0
                    THEN "InvalidRange" ELSE "Interest",
          !.out = IF principal <= 0
                    THEN [NoResult EXCEPT
                             !.annualRate = PercentOf(annualRate)]
                    ELSE IF DaysElapsed(start, end) < 0 THEN NoResult
                    ELSE InterestResult(principal, DaysElapsed(start, end),
                                        annualRate, dailyRate)])
    /\ UNCHANGED <<now, dbVars, ledgerVars, engineVars, quota>>

\* calculateInterestForPeriod(principal, days), lines 177-190
CalculateInterestForPeriod(p, principal, days) ==
    /\ call[p].pc = "idle"
    /\ Goto(p, [IdleCall EXCEPT
          !.pc = "respond", !.amt = principal, !.days = days,
          !.res = "PeriodInterest",
          !.out = [NoResult EXCEPT
             !.principal = principal * 100,
             !.days = days,
             !.annualRate = PercentOf(annualRate),
             !.interest = RoundHundredths(SubInt(
                             MulSmall(CompoundFactor(dailyRate, days),
                                      principal), principal)),
             !.totalValue = RoundHundredths(
                             MulSmall(CompoundFactor(dailyRate, days),
                                      principal))]])
    /\ UNCHANGED <<now, dbVars, ledgerVars, engineVars, quota>>

(* ------------------ HederaService (hederaService.js) ------------------- *)
\* the methods of the ledger service called on their own, whether or not a
\* handler of this version calls them
\* throw new Error('Token ID not set. Create token first.')
TokenIdNotSet(p) ==
    /\ UNCHANGED <<ledgerLog, ledgerTxCount, ledgerSupply>>
    /\ Finish(p, "TokenIdNotSet", NoRequest)

\* the try block shared by the token operations: build the transaction,
\* execute it, take the receipt.  delta is what a success adds to the
\* supply; the ledger turns down a burn of more than there is
Submit(p, op, delta) ==
    /\ ledgerTxCount < MaxLedgerTx
    /\ ledgerLog' = ledgerLog \cup {LedgerEntry(op, NoRequest)}
    /\ \E ok \in (IF ledgerSupply + delta >= 0 THEN BOOLEAN ELSE {FALSE}) :
         IF ok
           THEN /\ ledgerTxCount' = ledgerTxCount + 1
                /\ ledgerSupply' = ledgerSupply + delta
                /\ Finish(p, "LedgerDone", NoRequest)
           ELSE /\ UNCHANGED <<ledgerTxCount, ledgerSupply>>
                /\ Finish(p, "LedgerFailed", NoRequest)

MintTokens_NoGuard(p, amount) ==
    /\ call[p].pc = "idle"
    /\ Submit(p, "mint", amount)
    /\ UNCHANGED <<now, dbVars, hederaTokenId, ledgerCallsFor, engineVars,
                   quota>>

\* mintTokens(amount), lines 181-215
MintTokens(p, amount) ==
    /\ call[p].pc = "idle"
    /\ IF hederaTokenId = NoTx THEN TokenIdNotSet(p)
                               ELSE Submit(p, "mint", amount)
    /\ UNCHANGED <<now, dbVars, hederaTokenId, ledgerCallsFor, engineVars,
                   quota>>

\* burnTokens(amount), lines 224-258
BurnTokens(p, amount) ==
    /\ call[p].pc = "idle"
    /\ IF hederaTokenId = NoTx THEN TokenIdNotSet(p)
                               ELSE Submit(p, "burn", 0 - amount)
    /\ UNCHANGED <<now, dbVars, hederaTokenId, ledgerCallsFor, engineVars,
                   quota>>

\* transferTokensToInvestor(recipientAccountId, amount), lines 267-299
TransferTokensToInvestor(p, amount) ==
    /\ call[p].pc = "idle"
    /\ IF hederaTokenId = NoTx THEN TokenIdNotSet(p)
                               ELSE Submit(p, "transfer_out", 0)
    /\ UNCHANGED <<now, dbVars, hederaTokenId, ledgerCallsFor, engineVars,
                   quota>>

\* transferTokensFromInvestor(sender, key, amount), lines 310-345
TransferTokensFromInvestor(p, amount) ==
    /\ call[p].pc = "idle"
    /\ IF hederaTokenId = NoTx THEN TokenIdNotSet(p)
                               ELSE Submit(p, "transfer_in", 0)
    /\ UNCHANGED <<now, dbVars, hederaTokenId, ledgerCallsFor, engineVars,
                   quota>>

\* associateTokenToAccount(accountId, accountPrivateKey), lines 356-389
AssociateTokenToAccount(p) ==
    /\ call[p].pc = "idle"
    /\ IF hederaTokenId = NoTx THEN TokenIdNotSet(p)
                               ELSE Submit(p, "associate", 0)
    /\ UNCHANGED <<now, dbVars, hederaTokenId, ledgerCallsFor, engineVars,
                   quota>>

\* getTokenInfo(), lines 398-421
GetTokenInfo(p) ==
    /\ call[p].pc = "idle"
    /\ IF hederaTokenId = NoTx THEN TokenIdNotSet(p)
                               ELSE Submit(p, "info", 0)
    /\ UNCHANGED <<now, dbVars, hederaTokenId, ledgerCallsFor, engineVars,
                   quota>>

\* createTokenWithMultiSig(tokenConfig), lines 94-170: this.tokenId is set
\* from the receipt
CreateTokenWithMultiSig(p) ==
    /\ call[p].pc = "idle"
    /\ ledgerTxCount < MaxLedgerTx
    /\ ledgerLog' = ledgerLog \cup {LedgerEntry("create", NoRequest)}
    /\ \E ok \in BOOLEAN :
         IF ok
           THEN /\ ledgerTxCount' = ledgerTxCount + 1
                /\ hederaTokenId' = ledgerTxCount + 1
                /\ Finish(p, "LedgerDone", NoRequest)
           ELSE /\ UNCHANGED <<ledgerTxCount, hederaTokenId>>
                /\ Finish(p, "LedgerFailed", NoRequest)
    /\ UNCHANGED <<now, dbVars, ledgerSupply, ledgerCallsFor, engineVars,
                   quota>>

\* setTokenId(tokenId), lines 461-464, as initializeHedera calls it for the
\* active Token of the database
SetTokenId(p, id) ==
    /\ call[p].pc = "idle"
    /\ hederaTokenId' = id
    /\ Finish(p, "TokenIdSet", NoRequest)
    /\ UNCHANGED <<now, dbVars, ledgerTxCount, ledgerLog, ledgerSupply,
                   ledgerCallsFor, engineVars, quota>>

(* -------------------- redeemTokens (lines 612-749) --------------------- *)
\* interestService.calculateInterest(amountRWF, investmentDate) at time t,
\* for a stored investment (amountRWF >= 100, investmentDate in the past)
ValueAt(principal, start, t) ==
    InterestResult(principal, DaysElapsed(start, t), annualRate, dailyRate)

FindActive_AnyStatus(i, u) ==
    /\ i \in DOMAIN investments
    /\ investments[i].userId = u

\* Investment.findOne({_id, userId, status: 'active'})
FindActive(i, u) ==
    /\ i \in DOMAIN investments
    /\ investments[i].userId = u
    /\ investments[i].status = "active"

\* lines 616-655: the investment is looked up and valued, the user read
RedeemTokens(p, u, i, tokenAmount) ==
    /\ call[p].pc = "idle"
    /\ IF i = 0
         THEN Finish(p, "InvestmentIdRequired", NoRequest)
         ELSE IF ~FindActive(i, u)
           THEN Finish(p, "NotFound", NoRequest)
           ELSE IF ~users[u].hederaAccountId
             THEN Finish(p, "NotConfigured", NoRequest)
             ELSE /\ Cardinality(TransactionsOf("withdrawal"))
                       + InFlight({"redeem_tx_save"}) < quota.deposits
                  /\ Goto(p, [IdleCall EXCEPT
                        !.pc = "redeem_tx_save", !.user = u, !.inv = i,
                        !.at = now,
                        !.out = ValueAt(investments[i].amountRWF,
                                        investments[i].investmentDate, now),
                        !.val = ValueAt(investments[i].amountRWF,
                                        investments[i].investmentDate,
                                        now).totalValue,
                        !.redeem = IF tokenAmount # 0 THEN tokenAmount
                                   ELSE investments[i].tokenAmount])
    /\ UNCHANGED <<now, dbVars, ledgerVars, engineVars, quota>>

\* lines 660-670: the withdrawal Transaction, pending; its amountRWF is the
\* total value, here in hundredths
RedeemTxSave(p) ==
    /\ call[p].pc = "redeem_tx_save"
    /\ transactions' = Append(transactions,
          [userId |-> call[p].user, type |-> "withdrawal",
           amountRWF |-> call[p].val, tokenAmount |-> call[p].redeem,
           status |-> "pending", investmentId |-> call[p].inv,
           hederaTransactionId |-> "none", metadata |-> "none"])
    /\ Goto(p, [call[p] EXCEPT !.pc = "redeem_inv_save",
                               !.tx = Len(transactions) + 1])
    /\ UNCHANGED <<now, requests, tokens, users, investments,
                   ledgerVars, engineVars, quota>>

RedeemInvestmentSave_Restamp(p) ==
    /\ call[p].pc = "redeem_inv_save"
    /\ investments' = [investments EXCEPT
          ![call[p].inv].status = "redeemed",
          ![call[p].inv].redemptionDate = now,
          ![call[p].inv].redemptionAmount = call[p].val,
          ![call[p].inv].redemptionTransactionId = "mock-burn",
          ![call[p].inv].interestAccrued = call[p].out.interest,
          ![call[p].inv].interestRate = PercentOf(annualRate)]
    /\ Goto(p, [call[p] EXCEPT !.pc = "redeem_done_save"])
    /\ UNCHANGED <<now, requests, tokens, users, transactions,
                   ledgerVars, engineVars, quota>>

\* lines 672-706: the transfer to the treasury and the burn are mock
\* objects built in place (hederaService.burnTokens is commented out), so
\* the ledger is not called; then investment.save()
RedeemInvestmentSave(p) ==
    /\ call[p].pc = "redeem_inv_save"
    /\ investments' = [investments EXCEPT
          ![call[p].inv].status = "redeemed",
          ![call[p].inv].redemptionDate = now,
          ![call[p].inv].redemptionAmount = call[p].val,
          ![call[p].inv].redemptionTransactionId = "mock-burn",
          ![call[p].inv].interestAccrued = call[p].out.interest]
    /\ Goto(p, [call[p] EXCEPT !.pc = "redeem_done_save"])
    /\ UNCHANGED <<now, requests, tokens, users, transactions,
                   ledgerVars, engineVars, quota>>

\* lines 708-730: transaction completed; save(); success response
RedeemCompleteSave(p) ==
    /\ call[p].pc = "redeem_done_save"
    /\ transactions' = [transactions EXCEPT
          ![call[p].tx].hederaTransactionId = "mock-burn",
          ![call[p].tx].status = "completed"]
    /\ Goto(p, [call[p] EXCEPT !.pc = "respond", !.res = "Redeemed"])
    /\ UNCHANGED <<now, requests, tokens, users, investments,
                   ledgerVars, engineVars, quota>>

(* -------------------- getPortfolio (lines 810-884) --------------------- *)
Holding_SnapshotRate(i, t) ==
    LET r == InterestResult(investments[i].amountRWF,
                DaysElapsed(investments[i].investmentDate, t),
                RateFraction(investments[i].interestRate),
                DailyOf(RateFraction(investments[i].interestRate)))
    IN [id |-> i, amount |-> investments[i].amountRWF,
        investmentDate |-> investments[i].investmentDate,
        daysInvested |-> r.days, interestEarned |-> r.interest,
        currentValue |-> r.totalValue,
        interestRate |-> investments[i].interestRate]

\* one element of investmentsWithInterest, amounts in hundredths
Holding(i, t) ==
    [id |-> i, amount |-> investments[i].amountRWF,
     investmentDate |-> investments[i].investmentDate,
     daysInvested |-> ValueAt(investments[i].amountRWF,
                              investments[i].investmentDate, t).days,
     interestEarned |-> ValueAt(investments[i].amountRWF,
                                investments[i].investmentDate, t).interest,
     currentValue |-> ValueAt(investments[i].amountRWF,
                              investments[i].investmentDate, t).totalValue,
     interestRate |-> investments[i].interestRate]

RECURSIVE TotalValue(_)
\* calculatePortfolioInterest: totalValue += calculation.totalValue
TotalValue(hs) ==
    IF hs = {} THEN 0
    ELSE LET h == CHOOSE x \in hs : TRUE
         IN h.currentValue + TotalValue(hs \ {h})

\* Investment.find({userId, status: 'active'}), the per-investment
\* calculation and the summary; the handler writes nothing
GetPortfolio(p, u) ==
    /\ call[p].pc = "idle"
    /\ Goto(p, [IdleCall EXCEPT
          !.pc = "respond", !.user = u, !.at = now, !.res = "Portfolio",
          !.holdings = {Holding(i, now) :
                          i \in {j \in DOMAIN investments :
                                   FindActive(j, u)}},
          !.val = TotalValue({Holding(i, now) :
                          i \in {j \in DOMAIN investments :
                                   FindActive(j, u)}})])
    /\ UNCHANGED <<now, dbVars, ledgerVars, engineVars, quota>>

(* --------------------------- specifications ---------------------------- *)
\* the multi-sig endpoints, one call at a time, within the expiry window
Next ==
    \/ \E p \in SeqProcs : Respond(p)
    \/ \E p \in SeqProcs, u \in Callers : InitiateTokenCreation(p, u)
    \/ \E p \in SeqProcs, u \in Callers, nr \in NewRates :
          UpdateInterestRate(p, u, nr)
    \/ \E p \in SeqProcs : InitiateSave(p)
    \/ \E p \in SeqProcs, u \in Callers, r \in 1..(MaxRequests + 1) :
          ApproveRead(p, u, r)
    \/ \E p \in SeqProcs : ApproveSigSave(p)
    \/ \E p \in SeqProcs : ApproveLedger(p)
    \/ \E p \in SeqProcs : ApproveTokenSave(p)
    \/ \E p \in SeqProcs : ApproveExecSave(p)
    \/ \E p \in SeqProcs : ApproveRejectSave(p)

Spec == Init /\ [][Next]_vars

\* the multi-sig endpoints, one call at a time, while time passes
NextTimed ==
    \/ Tick
    \/ \E p \in SeqProcs : Respond(p)
    \/ \E p \in SeqProcs, u \in Callers : InitiateTokenCreation(p, u)
    \/ \E p \in SeqProcs, u \in Callers, nr \in NewRates :
          UpdateInterestRate(p, u, nr)
    \/ \E p \in SeqProcs : InitiateSave(p)
    \/ \E p \in SeqProcs, u \in Callers, r \in 1..(MaxSharedRequests + 1) :
          ApproveRead(p, u, r)
    \/ \E p \in SeqProcs : ApproveExpireSave(p)
    \/ \E p \in SeqProcs, u \in Callers : GetPendingRequests(p, u)
    \/ \E p \in SeqProcs : ApproveSigSave(p)
    \/ \E p \in SeqProcs : ApproveLedger(p)
    \/ \E p \in SeqProcs : ApproveTokenSave(p)
    \/ \E p \in SeqProcs : ApproveExecSave(p)
    \/ \E p \in SeqProcs : ApproveRejectSave(p)

SpecTimed == InitTimed /\ [][NextTimed]_vars

\* the multi-sig endpoints with overlapping calls
NextRace ==
    \/ \E p \in Procs, u \in RaceInitiators : InitiateTokenCreation(p, u)
    \/ \E p \in Procs, u \in RaceInitiators, nr \in ValidRates :
          UpdateInterestRate(p, u, nr)
    \/ \E p \in Procs : InitiateSave(p)
    \/ \E p \in Procs, u \in RaceApprovers, r \in 1..MaxSharedRequests :
          ApproveRead(p, u, r)
    \/ \E p \in Procs : ApproveSigSave(p)
    \/ \E p \in Procs : ApproveLedger(p)
    \/ \E p \in Procs : ApproveTokenSave(p)
    \/ \E p \in Procs : ApproveExecSave(p)
    \/ \E p \in Procs : ApproveRejectSave(p)

SpecRace == InitRace /\ [][NextRace]_vars

\* every endpoint, managers and investor, one call at a time
NextInvest ==
    \/ \E p \in SeqProcs : Respond(p)
    \/ \E p \in SeqProcs, u \in Callers : InitiateTokenCreation(p, u)
    \/ \E p \in SeqProcs, u \in Callers, nr \in NewRates :
          UpdateInterestRate(p, u, nr)
    \/ \E p \in SeqProcs : InitiateSave(p)
    \/ \E p \in SeqProcs, u \in Callers, r \in 1..(MaxSharedRequests + 1) :
          ApproveRead(p, u, r)
    \/ \E p \in SeqProcs : ApproveSigSave(p)
    \/ \E p \in SeqProcs : ApproveLedger(p)
    \/ \E p \in SeqProcs : ApproveTokenSave(p)
    \/ \E p \in SeqProcs : ApproveExecSave(p)
    \/ \E p \in SeqProcs : ApproveRejectSave(p)
    \/ \E p \in SeqProcs, u \in Investors : CreateHederaAccount(p, u)
    \/ \E p \in SeqProcs : CreateAccountLedger(p)
    \/ \E p \in SeqProcs : CreateAccountSave(p)
    \/ \E p \in SeqProcs, u \in Investors : AssociateToken(p, u)
    \/ \E p \in SeqProcs : AssociateSave(p)
    \/ \E p \in SeqProcs, u \in BuyCallers, a \in Amounts : BuyTokens(p, u, a)
    \/ \E p \in SeqProcs, ok \in WritesLand : BuyTxSave(p, ok)
    \/ \E p \in SeqProcs : BuyMint(p)
    \/ \E p \in SeqProcs, ok \in WritesLand : BuyInvestmentSave(p, ok)
    \/ \E p \in SeqProcs, ok \in WritesLand : BuyCompleteSave(p, ok)
    \/ \E p \in SeqProcs, ok \in WritesLand : BuyFailSave(p, ok)

SpecInvest == InitInvest /\ [][NextInvest]_vars

\* the interest engine alone: rate updates and computations
NextEngine ==
    \/ \E p \in SeqProcs : Respond(p)
    \/ \E p \in SeqProcs, nr \in EngineRates :
          ServiceUpdateInterestRate(p, nr)
    \/ \E p \in SeqProcs, a \in Principals : CalculateDailyInterest(p, a)
    \/ \E p \in SeqProcs, a \in ValuedPrincipals, s \in Times, e \in Times :
          CalculateInterest(p, a, s, e)
    \/ \E p \in SeqProcs, a \in {x \in ValuedPrincipals : x > 0},
          d \in PeriodDays : CalculateInterestForPeriod(p, a, d)

SpecEngine == InitEngine /\ [][NextEngine]_vars

\* the fund in operation: the token exists on the ledger, the investor has
\* an account associated with it; deposits, redemptions and portfolio
\* queries, one call at a time, the days passing between the calls and the
\* engine's rate being replaced
FundStartup ==
    /\ now = 0
    /\ requests = <<[NewRequest("token_creation", 0, "m1", 0) EXCEPT
                       !.signatures = PushSignature(@, "m2", 0),
                       !.status = "executed", !.executedAt = 0,
                       !.executionTransactionId = 1]>>
    /\ tokens = {[tokenId |-> 1, creationTransactionId |-> 1]}
    /\ hederaTokenId = 1
    /\ ledgerTxCount = 1
    /\ ledgerLog = {[op |-> "create", req |-> 1,
                     requestType |-> "token_creation", signers |-> 2]}
    /\ ledgerCallsFor = <<1>>
    /\ ledgerSupply = 0
    /\ users = [u \in Users |->
                  [role |-> IF u \in Managers THEN "manager" ELSE "investor",
                   hederaAccountId |-> TRUE,
                   tokenAssociated |-> u \in Investors]]
    /\ transactions = <<>>
    /\ investments = <<>>
    /\ annualRate = RateFraction(DefaultRatePercent)
    /\ dailyRate = DailyOf(RateFraction(DefaultRatePercent))
    /\ call = [p \in Procs |-> IdleCall]

InitFund ==
    FundStartup /\ quota = [requests |-> 0, deposits |-> MaxFundDeposits,
                            replies |-> TRUE]

\* one deposit and its redemption, the request naming a tokenAmount or not
InitRedeem ==
    FundStartup /\ quota = [requests |-> 0, deposits |-> MaxDeposits,
                            replies |-> TRUE]

NextFund ==
    \/ DayPasses
    \/ \E p \in SeqProcs : Respond(p)
    \/ \E p \in SeqProcs, nr \in FundRates : ServiceUpdateInterestRate(p, nr)
    \/ \E p \in SeqProcs, u \in FundCallers, a \in FundAmounts :
          BuyTokens(p, u, a)
    \/ \E p \in SeqProcs, ok \in WritesLand : BuyTxSave(p, ok)
    \/ \E p \in SeqProcs : BuyMint(p)
    \/ \E p \in SeqProcs, ok \in WritesLand : BuyInvestmentSave(p, ok)
    \/ \E p \in SeqProcs, ok \in WritesLand : BuyCompleteSave(p, ok)
    \/ \E p \in SeqProcs, ok \in WritesLand : BuyFailSave(p, ok)
    \/ \E p \in SeqProcs, u \in FundCallers, i \in 0..(MaxFundDeposits + 1),
          t \in RedeemAmounts : RedeemTokens(p, u, i, t)
    \/ \E p \in SeqProcs : RedeemTxSave(p)
    \/ \E p \in SeqProcs : RedeemInvestmentSave(p)
    \/ \E p \in SeqProcs : RedeemCompleteSave(p)
    \/ \E p \in SeqProcs, u \in FundCallers : GetPortfolio(p, u)

SpecFund == InitFund /\ [][NextFund]_vars

NextRedeem ==
    \/ DayPasses
    \/ \E p \in SeqProcs : Respond(p)
    \/ \E p \in SeqProcs, u \in Investors, a \in FundAmounts :
          BuyTokens(p, u, a)
    \/ \E p \in SeqProcs, ok \in WritesLand : BuyTxSave(p, ok)
    \/ \E p \in SeqProcs : BuyMint(p)
    \/ \E p \in SeqProcs, ok \in WritesLand : BuyInvestmentSave(p, ok)
    \/ \E p \in SeqProcs, ok \in WritesLand : BuyCompleteSave(p, ok)
    \/ \E p \in SeqProcs, ok \in WritesLand : BuyFailSave(p, ok)
    \/ \E p \in SeqProcs, u \in Investors, i \in 0..MaxDeposits,
          t \in PartialRedeemAmounts : RedeemTokens(p, u, i, t)
    \/ \E p \in SeqProcs : RedeemTxSave(p)
    \/ \E p \in SeqProcs : RedeemInvestmentSave(p)
    \/ \E p \in SeqProcs : RedeemCompleteSave(p)

SpecRedeem == InitRedeem /\ [][NextRedeem]_vars

\* deposits whose database writes may fail at any point
NextBuyFaults ==
    \/ \E p \in SeqProcs : Respond(p)
    \/ \E p \in SeqProcs, u \in Investors, a \in FundAmounts :
          BuyTokens(p, u, a)
    \/ \E p \in SeqProcs, ok \in WritesMayFail : BuyTxSave(p, ok)
    \/ \E p \in SeqProcs : BuyMint(p)
    \/ \E p \in SeqProcs, ok \in WritesMayFail : BuyInvestmentSave(p, ok)
    \/ \E p \in SeqProcs, ok \in WritesMayFail : BuyCompleteSave(p, ok)
    \/ \E p \in SeqProcs, ok \in WritesMayFail : BuyFailSave(p, ok)

SpecBuyFaults == InitFund /\ [][NextBuyFaults]_vars

\* redemptions that overlap: the investor's deposits are made one at a
\* time, the redemption calls are served side by side
NextRedeemRace ==
    \/ DayPasses
    \/ \E p \in Procs : Respond(p)
    \/ \E p \in SeqProcs, u \in Investors, a \in FundAmounts :
          BuyTokens(p, u, a)
    \/ \E p \in SeqProcs, ok \in WritesLand : BuyTxSave(p, ok)
    \/ \E p \in SeqProcs : BuyMint(p)
    \/ \E p \in SeqProcs, ok \in WritesLand : BuyInvestmentSave(p, ok)
    \/ \E p \in SeqProcs, ok \in WritesLand : BuyCompleteSave(p, ok)
    \/ \E p \in SeqProcs, ok \in WritesLand : BuyFailSave(p, ok)
    \/ \E p \in Procs, u \in Investors, i \in 1..MaxFundDeposits,
          t \in RedeemAmounts : RedeemTokens(p, u, i, t)
    \/ \E p \in Procs : RedeemTxSave(p)
    \/ \E p \in Procs : RedeemInvestmentSave(p)
    \/ \E p \in Procs : RedeemCompleteSave(p)

SpecRedeemRace == InitFund /\ [][NextRedeemRace]_vars

\* the ledger service alone, from its constructor on
InitLedger ==
    Startup /\ quota = [requests |-> 0, deposits |-> 0, replies |-> TRUE]

NextLedger ==
    \/ \E p \in SeqProcs : Respond(p)
    \/ \E p \in SeqProcs : CreateTokenWithMultiSig(p)
    \/ \E p \in SeqProcs, id \in StoredTokenIds : SetTokenId(p, id)
    \/ \E p \in SeqProcs, a \in LedgerAmounts : MintTokens(p, a)
    \/ \E p \in SeqProcs, a \in LedgerAmounts : BurnTokens(p, a)
    \/ \E p \in SeqProcs, a \in LedgerAmounts :
          TransferTokensToInvestor(p, a)
    \/ \E p \in SeqProcs, a \in LedgerAmounts :
          TransferTokensFromInvestor(p, a)
    \/ \E p \in SeqProcs : AssociateTokenToAccount(p)
    \/ \E p \in SeqProcs : GetTokenInfo(p)

SpecLedger == InitLedger /\ [][NextLedger]_vars

(* ------------------------------ properties ----------------------------- *)
DistinctSigners(r) == Cardinality(SignerIds(requests[r].signatures))

RequestIds == DOMAIN requests

\* C1: an executed request carries the signatures of at least 2 distinct
\* managers, and every ledger call made for a request was made while the
\* stored request held at least 2 distinct signatures.
C1_ExecutedHasTwoSigners ==
    /\ \A r \in RequestIds :
          requests[r].status = "executed" => DistinctSigners(r) >= 2
    /\ \A e \in ledgerLog : e.req # NoRequest => e.signers >= 2

C1_Witness ==
    \E r \in RequestIds :
       /\ requests[r].status = "executed"
       /\ DistinctSigners(r) >= 2
       /\ ledgerCallsFor[r] >= 1

\* C2: when approve calls of different managers overlap on one pending
\* request (every signature on it is of another manager), at most one
\* ledger execution is made for it and, once executed, it stores exactly
\* 2 signatures.
C2_OneExecutionPerRequest ==
    \A r \in RequestIds :
       DistinctSigners(r) = Len(requests[r].signatures) =>
          /\ ledgerCallsFor[r] <= 1
          /\ requests[r].status = "executed" =>
                Len(requests[r].signatures) = 2

\* C3: at most one token_creation request is ever executed and at most one
\* Token record exists.
C3_SingleTokenCreation ==
    /\ Cardinality({r \in RequestIds :
                       /\ requests[r].requestType = "token_creation"
                       /\ requests[r].status = "executed"}) <= 1
    /\ Cardinality(tokens) <= 1

\* the requestType that authorises a ledger operation
RequestTypeFor(op) ==
    IF op = "create" THEN "token_creation"
    ELSE IF op = "mint" THEN "token_mint" ELSE "token_burn"

\* C4: every mint (or burn) submitted to the ledger belongs to a
\* MultiSigRequest of the matching requestType that 2 distinct managers
\* signed before its expiresAt; buyTokens submits no mint without one.
C4_MintHasApprovedRequest ==
    \A e \in ledgerLog :
       e.op \in {"mint", "burn"} =>
          /\ e.req # NoRequest
          /\ e.requestType = RequestTypeFor(e.op)
          /\ e.signers >= 2
          /\ \A i \in 1..Len(requests[e.req].signatures) :
                requests[e.req].signatures[i].signedAt
                   <= requests[e.req].expiresAt

\* C5: the token-creation ledger call is made only for token_creation
\* requests, and once a rate_change request is executed the engine's
\* annualRate is its newRate / 100.
C5_RateChangeUpdatesEngine ==
    /\ \A e \in ledgerLog :
          e.op = "create" => e.requestType = "token_creation"
    /\ \A r \in RequestIds :
          (requests[r].requestType = "rate_change"
             /\ requests[r].status = "executed")
          => annualRate = RateFraction(requests[r].newRate)

\* C6: annualRate and dailyRate change only once a rate_change request
\* holds 2 distinct signatures; the updateInterestRate endpoint stores one
\* new pending request signed by the initiator alone and leaves annualRate
\* and dailyRate as they were.
C6_RateChangesOnlyAfterQuorum ==
    [][/\ (annualRate' # annualRate \/ dailyRate' # dailyRate) =>
            \E r \in DOMAIN requests' :
               /\ requests'[r].requestType = "rate_change"
               /\ Cardinality(SignerIds(requests'[r].signatures)) >= 2
       /\ \A p \in Procs :
            (call[p].typ = "rate_change" /\ call[p].pc = "init_save"
               /\ call'[p].pc # "init_save")
            => /\ Len(requests') = Len(requests) + 1
               /\ requests'[Len(requests')].requestType = "rate_change"
               /\ requests'[Len(requests')].status = "pending"
               /\ requests'[Len(requests')].signatures =
                     <<[managerId |-> call[p].user, signedAt |-> call[p].at]>>
               /\ annualRate' = annualRate
               /\ dailyRate' = dailyRate]_vars

C6_Witness ==
    \E p \in Procs :
       /\ call[p].pc = "respond" /\ call[p].res = "Initiated"
       /\ call[p].req \in RequestIds
       /\ requests[call[p].req].requestType = "rate_change"
       /\ requests[call[p].req].status = "pending"
       /\ Len(requests[call[p].req].signatures) = 1
       /\ annualRate = RateFraction(DefaultRatePercent)
       /\ dailyRate = DailyOf(annualRate)

\* C7: an approve call by a manager on a request that is executed, rejected
\* or approved is answered InvalidState and changes neither the request nor
\* the ledger nor the Token records; a caller who is no manager changes
\* nothing either.
C7_ApproveNonPendingRefused ==
    [][\A p \in Procs, u \in Users, r \in RequestIds :
          (ApproveRead(p, u, r)
             /\ requests[r].status \in {"executed", "rejected", "approved"})
          => /\ IsManager(u) =>
                  (call'[p].res = "InvalidState" /\ call'[p].req = r)
             /\ call'[p].pc = "respond"
             /\ UNCHANGED <<requests, tokens, ledgerVars>>]_vars

C7_Witness ==
    \E p \in Procs :
       /\ call[p].pc = "respond" /\ call[p].res = "InvalidState"
       /\ requests[call[p].req].status = "executed"
       /\ ledgerCallsFor[call[p].req] = 1

\* C8: an approve call on a pending, unexpired request by a manager who
\* already signed it is answered DuplicateSignature, appends no signature,
\* makes no ledger call and leaves the request pending.
C8_DuplicateSignatureRefused ==
    [][\A p \in Procs, u \in Users, r \in RequestIds :
          (ApproveRead(p, u, r)
             /\ requests[r].status = "pending"
             /\ now <= requests[r].expiresAt
             /\ u \in SignerIds(requests[r].signatures))
          => /\ call'[p].pc = "respond"
             /\ call'[p].res = "DuplicateSignature" /\ call'[p].req = r
             /\ UNCHANGED <<requests, tokens, ledgerVars>>]_vars

C8_Witness ==
    \E p \in Procs :
       /\ call[p].pc = "respond" /\ call[p].res = "DuplicateSignature"
       /\ requests[call[p].req].status = "pending"
       /\ Len(requests[call[p].req].signatures) = 1
       /\ ledgerCallsFor[call[p].req] = 0

\* C9: an approve call by a manager that meets a pending request after its
\* expiresAt persists status rejected, is answered Expired, appends no
\* signature and makes no ledger call; no executed request holds a
\* signature given after its expiresAt.
C9_ExpiredApproveRejects ==
    [][/\ \A p \in Procs, u \in Users, r \in RequestIds :
            (ApproveRead(p, u, r) /\ IsManager(u)
               /\ requests[r].status = "pending"
               /\ now > requests[r].expiresAt)
            => /\ call'[p].pc = "ap_expire_save" /\ call'[p].req = r
               /\ UNCHANGED <<requests, tokens, ledgerVars>>
       /\ \A p \in Procs :
            (call[p].pc = "ap_expire_save" /\ call'[p].pc # "ap_expire_save")
            => /\ call'[p].res = "Expired"
               /\ requests'[call[p].req].status = "rejected"
               /\ requests'[call[p].req].signatures =
                     requests[call[p].req].signatures
               /\ UNCHANGED <<tokens, ledgerVars>>
       /\ \A r \in DOMAIN requests' :
            requests'[r].status = "executed" =>
               \A i \in 1..Len(requests'[r].signatures) :
                  requests'[r].signatures[i].signedAt
                     <= requests'[r].expiresAt]_vars

C9_Witness ==
    \E p \in Procs :
       /\ call[p].pc = "respond" /\ call[p].res = "Expired"
       /\ requests[call[p].req].status = "rejected"
       /\ Len(requests[call[p].req].signatures) = 1
       /\ now > requests[call[p].req].expiresAt
       /\ ledgerCallsFor[call[p].req] = 0

\* C10: every request holds at most requiredSignatures signatures and no
\* manager identity twice.
C10_SignaturesBoundedAndUnique ==
    \A r \in RequestIds :
       /\ Len(requests[r].signatures) <= requests[r].requiredSignatures
       /\ DistinctSigners(r) = Len(requests[r].signatures)

\* C11: the status of a request only moves pending -> approved -> executed,
\* pending -> rejected or approved -> rejected; an executed or rejected
\* request keeps its status in every step, also when approve calls overlap.
C11_StatusMonotonic ==
    [][\A r \in RequestIds :
          \/ requests'[r].status = requests[r].status
          \/ /\ requests[r].status = "pending"
             /\ requests'[r].status \in {"approved", "rejected"}
          \/ /\ requests[r].status = "approved"
             /\ requests'[r].status \in {"executed", "rejected"}]_vars

\* C12: the save of an initiate call appends exactly one request: pending,
\* requiredSignatures 2, createdBy the initiator, the initiator's signature
\* alone, expiresAt 24 hours after the time the handler built it; the
\* requests stored before are untouched and no ledger call is made.
C12_InitiateCreatesOnePending ==
    [][\A p \in Procs :
          (call[p].pc = "init_save" /\ call'[p].pc # "init_save")
          => /\ Len(requests') = Len(requests) + 1
             /\ SubSeq(requests', 1, Len(requests)) = requests
             /\ requests'[Len(requests')].status = "pending"
             /\ requests'[Len(requests')].requiredSignatures = 2
             /\ requests'[Len(requests')].createdBy = call[p].user
             /\ requests'[Len(requests')].requestType = call[p].typ
             /\ Len(requests'[Len(requests')].signatures) = 1
             /\ requests'[Len(requests')].signatures[1].managerId
                   = call[p].user
             /\ requests'[Len(requests')].expiresAt
                   = call[p].at + ExpiryHours
             /\ call'[p].res = "Initiated"
             /\ call'[p].req = Len(requests')
             /\ ledgerCallsFor'[Len(requests')] = 0
             /\ UNCHANGED <<ledgerLog, ledgerTxCount, hederaTokenId,
                            tokens>>]_vars

C12_Witness ==
    \E p \in Procs :
       /\ call[p].pc = "respond" /\ call[p].res = "Initiated"
       /\ call[p].req \in RequestIds
       /\ requests[call[p].req].status = "pending"
       /\ requests[call[p].req].createdBy \in
             SignerIds(requests[call[p].req].signatures)
       /\ requests[call[p].req].expiresAt < now + ExpiryHours
       /\ ledgerLog = {}

\* C13: an initiateTokenCreation call that finds a Token record stores no
\* request and makes no ledger call, and a manager is answered that the
\* token exists; whenever a request is executed a Token record exists, so
\* after initiate and approve every later token_creation initiate fails.
C13_TokenCreationRefusedOnceTokenExists ==
    [][/\ \A p \in Procs, u \in Users :
            (InitiateTokenCreation(p, u) /\ tokens # {})
            => /\ call'[p].pc = "respond"
               /\ users[u].role = "manager" => call'[p].res = "TokenExists"
               /\ UNCHANGED <<dbVars, ledgerVars>>
       /\ (\E r \in DOMAIN requests' : requests'[r].status = "executed")
            => tokens' # {}]_vars

C13_Witness ==
    \E p \in Procs :
       /\ call[p].pc = "respond" /\ call[p].res = "TokenExists"
       /\ tokens # {}
       /\ \E r \in RequestIds :
             /\ requests[r].requestType = "token_creation"
             /\ requests[r].status = "executed"
             /\ requests[r].createdBy = "m1"
             /\ SignerIds(requests[r].signatures) = {"m1", "m2"}
       /\ \A r \in RequestIds : requests[r].status = "executed"

\* C14: an initiate or approve call by a user whose role is not manager is
\* answered NotAuthorized and changes neither the database nor the ledger
\* nor the rates; every stored signature is of a user with role manager.
C14_NonManagerRefused ==
    [][/\ \A p \in Procs, u \in Users :
            (/\ users[u].role # "manager"
             /\ call[p].pc = "idle" /\ call'[p].pc # "idle"
             /\ \/ InitiateTokenCreation(p, u)
                \/ \E nr \in NewRates : UpdateInterestRate(p, u, nr)
                \/ \E r \in 1..(Len(requests) + 1) : ApproveRead(p, u, r))
            => /\ call'[p].pc = "respond"
               /\ call'[p].res = "NotAuthorized"
               /\ UNCHANGED <<dbVars, ledgerVars, engineVars>>
       /\ \A r \in DOMAIN requests' :
            \A i \in 1..Len(requests'[r].signatures) :
               users'[requests'[r].signatures[i].managerId].role
                  = "manager"]_vars

C14_Witness ==
    \E p \in Procs :
       /\ call[p].pc = "respond" /\ call[p].res = "NotAuthorized"
       /\ \E r \in RequestIds :
             /\ requests[r].status = "pending"
             /\ Len(requests[r].signatures) = 1

\* C15: when the ledger call of an approve fails and the handler's write of
\* the outcome lands, the stored request is rejected, carries the failure
\* reason and both signatures, the caller is told of the failure and no
\* further ledger call is made.
C15_LedgerFailureRecorded ==
    [][\A p \in Procs :
          (/\ call[p].pc = "ap_reject_save" /\ call[p].err = "ledger_error"
           /\ call'[p].pc # "ap_reject_save"
           /\ requests'[call[p].req] # requests[call[p].req])
          => /\ requests'[call[p].req].status = "rejected"
             /\ requests'[call[p].req].metadata # "none"
             /\ Len(requests'[call[p].req].signatures) = 2
             /\ call'[p].res = "ExecutionFailed"
             /\ UNCHANGED ledgerVars]_vars

\* C16: a request carries executedAt and the execution transaction
\* reference if and only if its status is executed, and the reference of
\* an executed request is the transaction of a ledger result.
C16_ExecutionFieldsIffExecuted ==
    \A r \in RequestIds :
       /\ requests[r].status = "executed" <=> requests[r].executedAt # NoTime
       /\ requests[r].status = "executed"
             <=> requests[r].executionTransactionId # NoTx
       /\ requests[r].status = "executed" =>
             \E t \in tokens :
                t.creationTransactionId = requests[r].executionTransactionId

\* C17: approved is never a resting state: when an approve call has sent
\* its response, with success or with failure, and no call is in flight,
\* no stored request has status approved.
C17_ApprovedNeverResting ==
    (\A p \in Procs : call[p].pc \in {"idle", "respond"}) =>
       \A r \in RequestIds : requests[r].status # "approved"

\* C18: the list getPendingRequests returns to manager m holds only
\* requests that are pending, whose expiresAt is later than the time of the
\* call and that m has not signed, and it holds every such request.
C18_ListPendingExact ==
    [][\A p \in Procs, u \in Users :
          (GetPendingRequests(p, u) /\ users[u].role = "manager")
          => /\ call'[p].res = "PendingList"
             /\ \A r \in call'[p].list :
                   /\ r \in RequestIds
                   /\ requests[r].status \notin {"executed", "rejected",
                                                 "approved"}
                   /\ now < requests[r].expiresAt
                   /\ u \notin SignerIds(requests[r].signatures)
             /\ \A r \in RequestIds :
                   (/\ requests[r].status = "pending"
                    /\ now < requests[r].expiresAt
                    /\ u \notin SignerIds(requests[r].signatures))
                   => r \in call'[p].list
             /\ UNCHANGED <<dbVars, ledgerVars>>]_vars

C18_Witness ==
    \E p \in Procs :
       /\ call[p].pc = "respond" /\ call[p].res = "PendingList"
       /\ call[p].list # {}
       /\ \A r \in call[p].list :
             /\ requests[r].status = "pending"
             /\ call[p].user \notin SignerIds(requests[r].signatures)

\* C19: the engine's updateInterestRate with a rate below 0 or above 100
\* fails with the invalid-rate error and leaves annualRate and dailyRate
\* exactly as they were.
C19_InvalidRateLeavesRates ==
    [][\A p \in Procs, nr \in EngineRates :
          (ServiceUpdateInterestRate(p, nr) /\ (nr < 0 \/ nr > 10000))
          => /\ call'[p].pc = "respond"
             /\ call'[p].res = "InvalidRate"
             /\ annualRate' = annualRate
             /\ dailyRate' = dailyRate]_vars

C19_Witness ==
    \E p \in Procs :
       /\ call[p].pc = "respond" /\ call[p].res = "InvalidRate"
       /\ call[p].rate \in {-100, 10100}
       /\ annualRate = RateFraction(5000)
       /\ dailyRate = DailyOf(annualRate)

\* C20: annualRate changes only in a successful updateInterestRate, to
\* newRate / 100, and dailyRate is annualRate / 365 before and after every
\* step; a computation leaves both as they are and its result is the one
\* the rate of the latest update gives.
C20_RateIsLastUpdate ==
    [][/\ dailyRate = DailyOf(annualRate)
       /\ dailyRate' = DailyOf(annualRate')
       /\ \A p \in Procs, nr \in EngineRates :
            (ServiceUpdateInterestRate(p, nr) /\ nr >= 0 /\ nr <= 10000)
            => /\ annualRate' = nr * 100
               /\ call'[p].res = "RateUpdated"
       /\ annualRate' # annualRate =>
            \E p \in Procs :
               /\ call'[p].res = "RateUpdated"
               /\ annualRate' = call'[p].rate * 100
       /\ \A p \in Procs, a \in Principals :
            CalculateDailyInterest(p, a)
            => /\ annualRate' = annualRate /\ dailyRate' = dailyRate
               /\ call'[p].val = DailyInterest(a, DailyOf(annualRate))]_vars

C20_Witness ==
    \E p \in Procs :
       /\ call[p].pc = "respond" /\ call[p].res = "DailyInterest"
       /\ annualRate = RateFraction(3650)
       /\ call[p].amt = 500 /\ call[p].val = 50

\* C21: calculateInterest with principal > 0 and an end time earlier than
\* the start time, by whatever amount, fails with the invalid-range error
\* and leaves annualRate and dailyRate as they were.
C21_EndBeforeStartFails ==
    [][\A p \in Procs, a \in ValuedPrincipals, s \in Times, e \in Times :
          (a > 0 /\ e < s /\ call[p].pc = "idle" /\ call'[p].pc # "idle"
             /\ CalculateInterest(p, a, s, e))
          => /\ call'[p].res = "InvalidRange"
             /\ call'[p].out = NoResult
             /\ annualRate' = annualRate /\ dailyRate' = dailyRate]_vars

C21_Witness ==
    \E p \in Procs :
       /\ call[p].pc = "respond" /\ call[p].res = "InvalidRange"
       /\ call[p].amt > 0
       /\ call[p].until < call[p].at
       /\ call[p].at - call[p].until < 24

\* C22: calculateInterest with principal <= 0 returns principal 0,
\* interest 0, totalValue 0 and 0 days without error whatever the two
\* dates are, an end before the start included.
C22_NonPositivePrincipalZeroed ==
    [][\A p \in Procs, a \in ValuedPrincipals, s \in Times, e \in Times :
          (a <= 0 /\ call[p].pc = "idle" /\ call'[p].pc # "idle"
             /\ CalculateInterest(p, a, s, e))
          => /\ call'[p].res = "Interest"
             /\ call'[p].out.principal = 0
             /\ call'[p].out.interest = 0
             /\ call'[p].out.totalValue = 0
             /\ call'[p].out.days = 0
             /\ annualRate' = annualRate /\ dailyRate' = dailyRate]_vars

C22_Witness ==
    \E p \in Procs :
       /\ call[p].pc = "respond" /\ call[p].res = "Interest"
       /\ call[p].amt < 0
       /\ call[p].until < call[p].at
       /\ call[p].out.totalValue = 0 /\ call[p].out.days = 0

\* C23: for principal > 0 and start <= end, calculateInterest counts the
\* whole days between the two times and no part of a day; when that count
\* is 0, interest is 0 and totalValue is the principal.
C23_WholeDaysOnly ==
    \A p \in Procs :
       (call[p].pc = "respond" /\ call[p].res = "Interest"
          /\ call[p].amt > 0 /\ call[p].at <= call[p].until)
       => /\ call[p].out.days * 24 <= call[p].until - call[p].at
          /\ call[p].until - call[p].at < (call[p].out.days + 1) * 24
          /\ call[p].out.days = 0 =>
                /\ call[p].out.interest = 0
                /\ call[p].out.totalValue = call[p].amt * 100

C23_Witness ==
    \E p \in Procs :
       /\ call[p].pc = "respond" /\ call[p].res = "Interest"
       /\ call[p].amt = 100000
       /\ call[p].until - call[p].at = 12
       /\ call[p].out.days = 0
       /\ call[p].out.totalValue = 10000000

RECURSIVE BinomialFrom(_, _, _, _)
\* the terms k, k+1, ... of the binomial expansion of V x (1 + d)^n, T
\* being term k
BinomialFrom(T, d, n, k) ==
    IF k > n \/ T = <<0, 0, 0, 0, 0>> THEN <<0, 0, 0, 0, 0>>
    ELSE Add(T, BinomialFrom(DivSmall(MulSmall(Mul(T, d), n - k), k + 1),
                             d, n, k + 1))

\* V x (1 + d)^n
Compounded(V, d, n) == BinomialFrom(V, d, n, 0)

C25_ZeroDaysEffectiveRateFinite ==
    \A p \in Procs :
       (call[p].pc = "respond" /\ call[p].res = "Interest"
          /\ call[p].amt > 0 /\ call[p].out.days = 0)
       => call[p].out.finite

\* C26: the interestRate stored on an investment is the engine's rate at
\* the moment the investment is created, and no later step (redemption,
\* portfolio query, rate update) changes it.
C26_SnapshotRateFixed ==
    [][/\ \A i \in DOMAIN investments :
            investments'[i].interestRate = investments[i].interestRate
       /\ Len(investments') > Len(investments) =>
            investments'[Len(investments')].interestRate
               = PercentOf(annualRate)]_vars

\* an investment redeemed after the engine's rate was replaced, seen from a
\* portfolio response: its stored rate is still the old one
C26_Witness ==
    \E p \in Procs, i \in DOMAIN investments :
       /\ call[p].pc = "respond" /\ call[p].res = "Portfolio"
       /\ investments[i].status = "redeemed"
       /\ investments[i].interestRate = DefaultRatePercent
       /\ PercentOf(annualRate) # DefaultRatePercent

\* what the principal is worth d whole days on at the annual rate of
\* `percent` hundredths of a percent, in hundredths
WorthAtRate(principal, d, percent) ==
    RoundHundredths(MulSmall(
       Pow(Add(One, DailyOf(RateFraction(percent))), d), principal))

\* C27: a valuation (portfolio entry, redemption amount) is determined by
\* the principal, the investment date, the time of the query and the
\* engine's current rate: two holdings equal in principal and date are
\* valued the same whatever rates they store, and a holding that stores a
\* rate other than the current one is not valued at the stored rate.
C27_ValuedAtCurrentRate ==
    \A p \in Procs :
       /\ call[p].pc = "respond" /\ call[p].res = "Portfolio" =>
            /\ \A h \in call[p].holdings :
                  /\ h.daysInvested
                        = DaysElapsed(h.investmentDate, call[p].at)
                  /\ h.currentValue
                        = WorthAtRate(h.amount, h.daysInvested,
                                      PercentOf(annualRate))
                  /\ (h.interestRate # PercentOf(annualRate)
                        /\ h.daysInvested > 0) =>
                        h.currentValue # WorthAtRate(h.amount,
                                            h.daysInvested, h.interestRate)
            /\ \A g, h \in call[p].holdings :
                  (g.amount = h.amount
                     /\ g.investmentDate = h.investmentDate) =>
                        g.currentValue = h.currentValue
       /\ call[p].pc = "redeem_tx_save" =>
            call[p].val
               = WorthAtRate(investments[call[p].inv].amountRWF,
                    DaysElapsed(investments[call[p].inv].investmentDate,
                                call[p].at),
                    PercentOf(annualRate))

\* a portfolio, a day on, with two holdings of the same principal and date
\* bought either side of a rate update
C27_Witness ==
    \E p \in Procs :
       /\ call[p].pc = "respond" /\ call[p].res = "Portfolio"
       /\ \E g, h \in call[p].holdings :
             /\ g.amount = h.amount
             /\ g.investmentDate = h.investmentDate
             /\ g.interestRate # h.interestRate
             /\ g.daysInvested > 0

\* C28: redeeming an active investment of the caller sets it to redeemed
\* with redemptionAmount the total value computed for its principal and
\* investment date at the time of the call; a redemption of an absent,
\* foreign or no longer active investment is answered not-found and
\* changes nothing; a redeemed investment never changes again.
C28_RedeemOnceAtValue ==
    [][\A p \in SeqProcs :
         /\ (call[p].pc = "idle" /\ call'[p].pc = "redeem_tx_save") =>
               /\ FindActive(call'[p].inv, call'[p].user)
               /\ call'[p].val
                     = WorthAtRate(investments[call'[p].inv].amountRWF,
                          DaysElapsed(
                             investments[call'[p].inv].investmentDate, now),
                          PercentOf(annualRate))
         /\ (call[p].pc = "redeem_inv_save" /\ call'[p].pc # call[p].pc) =>
               /\ investments[call[p].inv].status = "active"
               /\ investments'[call[p].inv].status = "redeemed"
               /\ investments'[call[p].inv].redemptionAmount = call[p].val
               /\ \A j \in DOMAIN investments \ {call[p].inv} :
                     investments'[j] = investments[j]
         /\ \A u \in FundCallers, i \in 1..(MaxFundDeposits + 1),
               t \in RedeemAmounts :
               (~FindActive(i, u) /\ RedeemTokens(p, u, i, t)) =>
                  /\ call'[p].res = "NotFound"
                  /\ UNCHANGED <<dbVars, ledgerVars, engineVars>>
         /\ \A i \in DOMAIN investments :
               investments[i].status = "redeemed" =>
                  investments'[i] = investments[i]]_vars

\* a redemption answered with success a day after the deposit, the stored
\* amount above the principal, and then a second redemption of the same
\* investment answered not-found
C28_Witness ==
    \E p \in Procs, i \in DOMAIN investments :
       /\ call[p].pc = "respond" /\ call[p].res = "NotFound"
       /\ investments[i].status = "redeemed"
       /\ investments[i].redemptionAmount > investments[i].amountRWF * 100
       /\ \E j \in DOMAIN investments : investments[j].status = "active"

RECURSIVE ActiveTokens(_)
\* the sum of tokenAmount over the first n investments that are active
ActiveTokens(n) ==
    IF n = 0 THEN 0
    ELSE ActiveTokens(n - 1)
         + (IF investments[n].status = "active"
              THEN investments[n].tokenAmount ELSE 0)

\* C29: between calls, the supply on the ledger (minted less burned) is
\* the sum of tokenAmount over the active investments.
C29_SupplyMatchesActive ==
    (\A p \in Procs : call[p].pc \in {"idle", "respond"}) =>
       ledgerSupply = ActiveTokens(Len(investments))

\* C30: when the mint of a deposit does not go through on the ledger, the
\* handler creates no Investment, marks the deposit Transaction failed
\* with the error in its metadata, reports the failure and does not call
\* the ledger again; the failed Transaction stays as it is.
C30_MintFailureRecorded ==
    [][\A p \in SeqProcs :
         /\ (call[p].pc = "buy_mint" /\ call'[p].pc # "buy_mint"
               /\ ledgerSupply' = ledgerSupply) =>
               /\ call'[p].pc = "buy_fail_save"
               /\ UNCHANGED <<investments, transactions, ledgerTxCount>>
         /\ (call[p].pc = "buy_fail_save" /\ call'[p].pc # call[p].pc) =>
               /\ transactions'[call[p].tx].type = "deposit"
               /\ transactions'[call[p].tx].status = "failed"
               /\ transactions'[call[p].tx].metadata = "error"
               /\ transactions'[call[p].tx].investmentId = 0
               /\ call'[p].pc = "respond"
               /\ call'[p].res = "InvestmentFailed"
               /\ UNCHANGED <<investments, ledgerVars>>
         /\ \A i \in DOMAIN transactions :
               transactions[i].status = "failed" =>
                  transactions'[i] = transactions[i]]_vars

\* the failure response to a deposit whose mint the ledger turned down,
\* the token being there
C30_Witness ==
    \E p \in Procs, i \in DOMAIN transactions :
       /\ call[p].pc = "respond" /\ call[p].res = "InvestmentFailed"
       /\ hederaTokenId # NoTx
       /\ \E e \in ledgerLog : e.op = "mint"
       /\ transactions[i].status = "failed"
       /\ transactions[i].metadata = "error"
       /\ investments = <<>>

\* C31: buyTokens with a missing or non-positive amount, for an unknown
\* user, a user without a ledger account or a user without the token
\* association answers with the error at once: no Transaction, no
\* Investment, no ledger call, nothing stored changes.
C31_BuyValidationFirst ==
    [][\A p \in SeqProcs, u \in BuyCallers, a \in Amounts :
         (/\ BuyTokens(p, u, a)
          /\ \/ a <= 0
             \/ u \notin DOMAIN users
             \/ ~users[u].hederaAccountId
             \/ ~users[u].tokenAssociated) =>
            /\ call'[p].pc = "respond"
            /\ call'[p].res \in {"InvalidAmount", "UserNotFound",
                                 "NoAccount", "NotAssociated"}
            /\ call'[p].res = "InvalidAmount" <=> a <= 0
            /\ UNCHANGED <<dbVars, ledgerVars, engineVars>>]_vars

\* the token is there and the investor has an account, yet a deposit of a
\* valid amount is turned down for the missing association
C31_Witness ==
    \E p \in Procs :
       /\ call[p].pc = "respond" /\ call[p].res = "NotAssociated"
       /\ hederaTokenId # NoTx
       /\ users["u1"].hederaAccountId /\ ~users["u1"].tokenAssociated
       /\ transactions = <<>> /\ investments = <<>>

TokenOps == {"mint", "burn", "transfer_out", "transfer_in", "associate",
             "info"}

\* C33: while the ledger service holds no token id, a mint, burn, transfer,
\* association or token query answers 'Token ID not set' and hands nothing
\* to the ledger; so whatever of these the ledger was ever handed, it was
\* handed while a token id was set, and a set token id is never unset.
C33_NoTokenNoSubmission ==
    [][/\ hederaTokenId = NoTx =>
            /\ \A e \in ledgerLog' \ ledgerLog : e.op = "create"
            /\ ledgerSupply' = ledgerSupply
            /\ \A p \in SeqProcs, a \in LedgerAmounts :
                  (\/ MintTokens(p, a) \/ BurnTokens(p, a)
                   \/ TransferTokensToInvestor(p, a)
                   \/ TransferTokensFromInvestor(p, a)
                   \/ AssociateTokenToAccount(p) \/ GetTokenInfo(p)) =>
                     /\ call'[p].res = "TokenIdNotSet"
                     /\ UNCHANGED ledgerVars
       /\ (\E e \in ledgerLog' : e.op \in TokenOps) => hederaTokenId' # NoTx
       /\ hederaTokenId # NoTx => hederaTokenId' # NoTx]_vars

\* a token operation turned down for the missing token id after a token
\* creation that the ledger did not accept
C33_Witness ==
    \E p \in Procs :
       /\ call[p].pc = "respond" /\ call[p].res = "TokenIdNotSet"
       /\ hederaTokenId = NoTx
       /\ ledgerLog # {}
       /\ \A e \in ledgerLog : e.op = "create"

\* C34: the rate_change endpoint turns down exactly the rates the engine's
\* updateInterestRate turns down: a manager's newRate from 0 to 100, both
\* included, goes on to the creation of the request, any other is
\* answered invalid.
C34_EndpointAcceptsEngineRates ==
    [][\A p \in SeqProcs, u \in Managers, nr \in NewRates :
         UpdateInterestRate(p, u, nr) =>
            IF RateOutOfRange(nr)
              THEN call'[p].res = "InvalidRate" /\ requests' = requests
              ELSE call'[p].pc = "init_save" /\ call'[p].rate = nr]_vars

\* C35: an approve call that leaves its request rejected is one whose
\* ledger operation failed; the failure it met is never one that came
\* after the ledger had accepted the operation (the save of the Token
\* record or of the request).
C35_RejectedMeansLedgerFailed ==
    [][\A p \in SeqProcs :
         (/\ call[p].pc = "ap_reject_save"
          /\ requests'[call[p].req].status = "rejected") =>
            call[p].err = "ledger_error"]_vars

\* the completed withdrawal Transactions of investment i
CompletedWithdrawals(i) ==
    {t \in TransactionsOf("withdrawal") :
        /\ transactions[t].investmentId = i
        /\ transactions[t].status = "completed"}

\* C36: however redemption calls on one investment overlap, at most one
\* completed withdrawal Transaction exists for it.
C36_OneWithdrawalPerInvestment ==
    \A i \in DOMAIN investments : Cardinality(CompletedWithdrawals(i)) <= 1

\* C37: the completed withdrawal Transaction of a redeemed investment
\* records the tokenAmount that was issued for the investment.
C37_WithdrawalTokensMatch ==
    \A i \in DOMAIN investments, t \in DOMAIN transactions :
       (/\ investments[i].status = "redeemed"
        /\ transactions[t].type = "withdrawal"
        /\ transactions[t].status = "completed"
        /\ transactions[t].investmentId = i) =>
          transactions[t].tokenAmount = investments[i].tokenAmount

\* C38: when buyTokens returns, its deposit Transaction is completed if the
\* call created an Investment and failed if it did not; it is not left
\* pending.
C38_DepositSettled ==
    [][\A p \in SeqProcs :
         (/\ call[p].pc \in {"buy_done_save", "buy_fail_save"}
          /\ call'[p].pc = "respond") =>
            /\ transactions'[call[p].tx].status \in {"completed", "failed"}
            /\ transactions'[call[p].tx].status = "completed"
                  <=> call[p].inv # 0]_vars

====
